---- MODULE Spec2Model ----
(***************************************************************************)
(* Stock-market-analyzer: the market-data cache route                      *)
(* (src/marketdata/main.py), the news ingestion pipeline                   *)
(* (src/pipeline/main.py) and the daily analytics scan                     *)
(* (src/analytics/main.py), each as a state machine.                       *)
(***************************************************************************)
EXTENDS Integers, Sequences, FiniteSets, TLC

VARIABLES
    now,         \* wall clock of the cache side, in seconds
    redisStore,  \* the Redis key CACHE_KEY: NoEntry or [val, setAt]
    lastSet,     \* history: the last value SETEX stored, kept past expiry
    pc,          \* per request: position in market_data_route
    r,           \* per request: the handle redis_client() returned
    cached,      \* per request: local `cached`
    live,        \* per request: local `live`
    stale,       \* per request: local `stale`
    resp,        \* per request: the (body, status) returned
    log,         \* per request: the Redis error lines it logged
    started,     \* number of requests started so far
    clock,           \* wall clock of the store side, in hours
    articles,        \* the 'articles' collection, in order of creation
    current_sentiment, \* the document market_status/current_sentiment
    ppc,             \* per ingestion run: position in main / Pipeline.run
    existing_urls,   \* per run: self.existing_urls
    new_articles,    \* per run: local `new_articles` of run
    stats,           \* per run: local `stats` of run
    attempt,         \* per run: attempts of fetch_and_analyze made so far
    scores,          \* per run: local `scores` of update_realtime_sentiment
    runs_started,    \* number of ingestion runs started so far
    dpc,             \* daily job: position in main / DailyAnalytics.calculate
    day,             \* daily job: local `day`, the start of the scanned day
    last,            \* daily job: local `last`, the cursor snapshot
    docs,            \* daily job: local `docs`, the page last fetched
    incoming,        \* daily job: the list cur_q.stream() is filling, not yet bound to `docs`
    overall_scores,  \* daily job: local `overall_scores`
    sector_scores,   \* daily job: local `sector_scores`, a defaultdict(list)
    total,           \* daily job: local `total`
    result,          \* daily job: local `result` of calculate
    dresp,           \* daily job: what main returned
    queries,         \* history: page queries the current scan has issued
    sentiment_history, \* the 'sentiment_history' collection, by date
    writes,          \* history: set() calls that reached 'sentiment_history', by date
    daily_started,   \* number of daily jobs started so far
    label,           \* the 'sentiment' value of a stored document under study
    rolling,         \* what Pipeline.update_realtime_sentiment makes of it
    daily,           \* what DailyAnalytics._process_batch makes of it
    rolling_hardened \* what calculate_and_save_real_time_sentiment makes of it

cacheVars == <<now, redisStore, lastSet, pc, r, cached, live, stale, resp, log, started>>

storeVars == <<clock, articles>>

pipeVars == <<current_sentiment, ppc, existing_urls, new_articles, stats,
              attempt, scores, runs_started>>

dailyVars == <<dpc, day, last, docs, incoming, overall_scores, sector_scores, total,
               result, dresp, queries, sentiment_history, writes, daily_started>>

scoreVars == <<label, rolling, daily, rolling_hardened>>

vars == <<cacheVars, storeVars, pipeVars, dailyVars, scoreVars>>

----------------------------------------------------------------------------
(* Bounds of the model *)

TickStep == 150      \* seconds that pass in one clock step
MaxTime == 450       \* the clock stops here
MaxStarts == 2       \* requests started in one behaviour

ClockStep == 18     \* hours that pass in one step of the store clock
MaxClock == 36      \* the store clock stops here
MaxBatch == 2       \* candidates in one completion response
MaxRuns == 2        \* ingestion runs started in one behaviour
MaxDocs == 2        \* documents the 'articles' collection can take
MaxStore == 3       \* documents in the collection when the daily job is studied
MaxDaily == 2       \* daily jobs started in one behaviour
batch_size == 2     \* self.batch_size, 1000 in the code, scaled to the stores of the model

(* Program constants *)

CACHE_TTL == 300

Reqs == {"q1", "q2"}        \* request slots that may overlap

None == [kind |-> "None"]          \* Python None
Unset == [kind |-> "Unset"]        \* a local not assigned yet
NoEntry == [kind |-> "NoEntry"]    \* the key does not exist in Redis
Handle == [kind |-> "Redis"]       \* a connected redis.Redis client

----------------------------------------------------------------------------
(* Payloads and their JSON form *)

NIFTY == "NIFTY 50"
SENSEX == "SENSEX"

\* json.dumps / json.loads of a payload dict: the string Redis holds.
Dumps(data) == [json |-> data]
Loads(v) == v.json

\* the 503 and 401 bodies
UnavailableBody == [error |-> "Market data is temporarily unavailable"]
UnauthorizedBody == [error |-> "Unauthorized"]

\* fetch_indices: one GLOBAL_QUOTE call per index; a call that times out,
\* errors or carries no price is logged and contributes nothing.
fetch_indices(niftyOk, sensexOk) ==
    (IF niftyOk THEN <<NIFTY>> ELSE <<>>) \o (IF sensexOk THEN <<SENSEX>> ELSE <<>>)

\* get_market_data_live: None only when an exception escapes the body,
\* which is the secret lookup failing; otherwise a dict stamped with utcnow.
get_market_data_live(secretOk, niftyOk, sensexOk, t) ==
    IF ~secretOk THEN None
    ELSE [indices |-> fetch_indices(niftyOk, sensexOk),
          lastUpdated |-> t,
          warning |-> FALSE]

\* Python truthiness of an Optional[dict]: None is falsy, a dict with keys truthy.
Truthy(d) == d # None /\ d # Unset

----------------------------------------------------------------------------
(* The Redis key *)

\* r.get(CACHE_KEY): the stored string, or nil once the key has expired.
RedisGet == IF redisStore = NoEntry THEN None ELSE redisStore.val

\* get_cached with the key never found
get_cached_never(handle, ok) == None

\* get_cached(r): None without a handle, on a Redis error, or on a nil value.
get_cached(handle, ok) ==
    IF handle = None THEN None
    ELSE IF ~ok THEN None
    ELSE IF RedisGet = None THEN None ELSE Loads(RedisGet)

\* logger.error("Redis get error") in get_cached
GetErrorLine(handle, ok) ==
    IF handle # None /\ ~ok THEN {"Redis get error"} ELSE {}

\* logger.error("Redis set error") in set_cached
SetErrorLine(handle, ok) ==
    IF handle # None /\ ~ok THEN {"Redis set error"} ELSE {}

\* The entry SETEX leaves behind: the value and the time it was set.
SetexEntry(data, t) == [val |-> Dumps(data), setAt |-> t]

\* set_cached with the SETEX left out
set_cached_dropped(handle, ok, data, t) == redisStore

\* set_cached with SET NX in place of SETEX: an entry in place is kept
set_cached_first(handle, ok, data, t) ==
    IF handle # None /\ ok /\ redisStore = NoEntry THEN SetexEntry(data, t) ELSE redisStore

\* set_cached(r, data): SETEX CACHE_KEY CACHE_TTL; nothing without a handle
\* or on a Redis error.
set_cached(handle, ok, data, t) ==
    IF handle # None /\ ok THEN SetexEntry(data, t) ELSE redisStore

\* Redis drops a key whose TTL has run out.
Expired(entry, t) == entry # NoEntry /\ t - entry.setAt >= CACHE_TTL

----------------------------------------------------------------------------
(* market_data_route, one step per call it makes *)

InitCache ==
    /\ now = 0
    /\ redisStore = NoEntry
    /\ lastSet = NoEntry
    /\ pc = [q \in Reqs |-> "idle"]
    /\ r = [q \in Reqs |-> Unset]
    /\ cached = [q \in Reqs |-> Unset]
    /\ live = [q \in Reqs |-> Unset]
    /\ stale = [q \in Reqs |-> Unset]
    /\ resp = [q \in Reqs |-> Unset]
    /\ log = [q \in Reqs |-> {}]
    /\ started = 0

\* market_data_route with the token check left out
Arrive_ungated(q, tokenOk) ==
    /\ pc[q] = "idle"
    /\ started < MaxStarts
    /\ q = "q2" => pc["q1"] # "idle"
    /\ started' = started + 1
    /\ pc' = [pc EXCEPT ![q] = "connect"]
    /\ UNCHANGED <<now, redisStore, lastSet, r, cached, live, stale, resp, log>>

\* A request arrives; verify_app_check_token decides whether it goes on.
Arrive(q, tokenOk) ==
    /\ pc[q] = "idle"
    /\ started < MaxStarts
    /\ q = "q2" => pc["q1"] # "idle"      \* the free slots are interchangeable
    /\ started' = started + 1
    /\ IF tokenOk
         THEN /\ pc' = [pc EXCEPT ![q] = "connect"]
              /\ resp' = resp
         ELSE /\ pc' = [pc EXCEPT ![q] = "done"]
              /\ resp' = [resp EXCEPT ![q] = [status |-> 401, body |-> UnauthorizedBody]]
    /\ UNCHANGED <<now, redisStore, lastSet, r, cached, live, stale, log>>

\* redis_client() with a failed ping answered 503 at once
Connect_failhard(q, pingOk) ==
    /\ pc[q] = "connect"
    /\ r' = [r EXCEPT ![q] = IF pingOk THEN Handle ELSE None]
    /\ log' = [log EXCEPT ![q] = IF pingOk THEN @ ELSE @ \cup {"Redis unavailable"}]
    /\ pc' = [pc EXCEPT ![q] = IF pingOk THEN "get1" ELSE "done"]
    /\ resp' = [resp EXCEPT ![q] =
          IF pingOk THEN @ ELSE [status |-> 503, body |-> UnavailableBody]]
    /\ UNCHANGED <<now, redisStore, lastSet, cached, live, stale, started>>

\* r = redis_client(): a handle when the ping answers, None otherwise.
Connect(q, pingOk) ==
    /\ pc[q] = "connect"
    /\ r' = [r EXCEPT ![q] = IF pingOk THEN Handle ELSE None]
    /\ log' = [log EXCEPT ![q] = IF pingOk THEN @ ELSE @ \cup {"Redis unavailable"}]
    /\ pc' = [pc EXCEPT ![q] = "get1"]
    /\ UNCHANGED <<now, redisStore, lastSet, cached, live, stale, resp, started>>

\* cached = get_cached(r); if cached: return jsonify(cached), 200
FirstLookup(q, ok) ==
    /\ pc[q] = "get1"
    /\ LET c == get_cached(r[q], ok) IN
        /\ cached' = [cached EXCEPT ![q] = c]
        /\ IF Truthy(c)
             THEN /\ resp' = [resp EXCEPT ![q] = [status |-> 200, body |-> c]]
                  /\ pc' = [pc EXCEPT ![q] = "done"]
             ELSE /\ resp' = resp
                  /\ pc' = [pc EXCEPT ![q] = "fetch"]
    /\ log' = [log EXCEPT ![q] = @ \cup GetErrorLine(r[q], ok)]
    /\ UNCHANGED <<now, redisStore, lastSet, r, live, stale, started>>

\* live = get_market_data_live()
Fetch(q, secretOk, niftyOk, sensexOk) ==
    /\ pc[q] = "fetch"
    /\ LET l == get_market_data_live(secretOk, niftyOk, sensexOk, now) IN
        /\ live' = [live EXCEPT ![q] = l]
        /\ pc' = [pc EXCEPT ![q] = IF Truthy(l) THEN "set" ELSE "get2"]
    /\ UNCHANGED <<now, redisStore, lastSet, r, cached, stale, resp, log, started>>

\* if live: set_cached(r, live); return jsonify(live), 200
StoreAndReturn(q, ok) ==
    /\ pc[q] = "set"
    /\ redisStore' = set_cached(r[q], ok, live[q], now)
    /\ lastSet' = IF redisStore' # redisStore THEN redisStore' ELSE lastSet
    /\ resp' = [resp EXCEPT ![q] = [status |-> 200, body |-> live[q]]]
    /\ log' = [log EXCEPT ![q] = @ \cup SetErrorLine(r[q], ok)]
    /\ pc' = [pc EXCEPT ![q] = "done"]
    /\ UNCHANGED <<now, r, cached, live, stale, started>>

\* the second lookup answered from the value written last, whatever its age
SecondLookup_any_age(q, ok) ==
    /\ pc[q] = "get2"
    /\ LET s == IF r[q] = Handle /\ ok /\ lastSet # NoEntry
                  THEN Loads(lastSet.val) ELSE None IN
        /\ stale' = [stale EXCEPT ![q] = s]
        /\ resp' = [resp EXCEPT ![q] =
              IF Truthy(s)
                THEN [status |-> 200, body |-> [s EXCEPT !.warning = TRUE]]
                ELSE [status |-> 503, body |-> UnavailableBody]]
    /\ log' = [log EXCEPT ![q] = @ \cup GetErrorLine(r[q], ok)]
    /\ pc' = [pc EXCEPT ![q] = "done"]
    /\ UNCHANGED <<now, redisStore, lastSet, r, cached, live, started>>

\* stale = get_cached(r); if stale: add the warning, 200; else 503
SecondLookup(q, ok) ==
    /\ pc[q] = "get2"
    /\ LET s == get_cached(r[q], ok) IN
        /\ stale' = [stale EXCEPT ![q] = s]
        /\ resp' = [resp EXCEPT ![q] =
              IF Truthy(s)
                THEN [status |-> 200, body |-> [s EXCEPT !.warning = TRUE]]
                ELSE [status |-> 503, body |-> UnavailableBody]]
    /\ log' = [log EXCEPT ![q] = @ \cup GetErrorLine(r[q], ok)]
    /\ pc' = [pc EXCEPT ![q] = "done"]
    /\ UNCHANGED <<now, redisStore, lastSet, r, cached, live, started>>

\* The response has gone out; the slot serves the next request.
Finish(q) ==
    /\ pc[q] = "done"
    /\ pc' = [pc EXCEPT ![q] = "idle"]
    /\ r' = [r EXCEPT ![q] = Unset]
    /\ cached' = [cached EXCEPT ![q] = Unset]
    /\ live' = [live EXCEPT ![q] = Unset]
    /\ stale' = [stale EXCEPT ![q] = Unset]
    /\ resp' = [resp EXCEPT ![q] = Unset]
    /\ log' = [log EXCEPT ![q] = {}]
    /\ UNCHANGED <<now, redisStore, lastSet, started>>

\* Time passes; Redis drops the key once its TTL has run out.  A request
\* is over within its socket timeouts (5 s for Redis, 10 s per quote call),
\* well inside one clock step, so the clock steps between requests.
Tick ==
    /\ now + TickStep <= MaxTime
    /\ \A q \in Reqs : pc[q] = "idle"
    /\ now' = now + TickStep
    /\ redisStore' = IF Expired(redisStore, now') THEN NoEntry ELSE redisStore
    /\ UNCHANGED <<lastSet, pc, r, cached, live, stale, resp, log, started>>

CacheStep ==
    \/ \E q \in Reqs, tokenOk \in BOOLEAN : Arrive(q, tokenOk)
    \/ \E q \in Reqs, pingOk \in BOOLEAN : Connect(q, pingOk)
    \/ \E q \in Reqs, ok \in BOOLEAN : FirstLookup(q, ok)
    \/ \E q \in Reqs, secretOk, niftyOk, sensexOk \in BOOLEAN :
          Fetch(q, secretOk, niftyOk, sensexOk)
    \/ \E q \in Reqs, ok \in BOOLEAN : StoreAndReturn(q, ok)
    \/ \E q \in Reqs, ok \in BOOLEAN : SecondLookup(q, ok)
    \/ \E q \in Reqs : Finish(q)
    \/ Tick

----------------------------------------------------------------------------
(* Strings the code takes apart are sequences of characters *)

Str(chars) == [kind |-> "str", chars |-> chars]
\* a list held in a document field, which may also be null or absent
List(items) == [kind |-> "list", items |-> items]
Missing == [kind |-> "Missing"]      \* a key absent from a document
NoDoc == [kind |-> "NoDoc"]          \* a document that does not exist

UpperLetters == <<"A","B","C","D","E","F","G","H","I","J","K","L","M",
                  "N","O","P","Q","R","S","T","U","V","W","X","Y","Z">>
LowerLetters == <<"a","b","c","d","e","f","g","h","i","j","k","l","m",
                  "n","o","p","q","r","s","t","u","v","w","x","y","z">>

LowerChar(c) ==
    IF \E i \in DOMAIN UpperLetters : UpperLetters[i] = c
      THEN LowerLetters[CHOOSE i \in DOMAIN UpperLetters : UpperLetters[i] = c]
      ELSE c

UpperChar(c) ==
    IF \E i \in DOMAIN LowerLetters : LowerLetters[i] = c
      THEN UpperLetters[CHOOSE i \in DOMAIN LowerLetters : LowerLetters[i] = c]
      ELSE c

\* str.lower(), str.upper(), str.strip()
str_lower(s) == Str([i \in 1..Len(s.chars) |-> LowerChar(s.chars[i])])
str_upper(s) == Str([i \in 1..Len(s.chars) |-> UpperChar(s.chars[i])])
str_strip(s) ==
    LET c == s.chars
        keep == {i \in 1..Len(c) : c[i] # " "}
    IN IF keep = {} THEN Str(<<>>)
       ELSE Str(SubSeq(c, CHOOSE i \in keep : \A j \in keep : i <= j,
                          CHOOSE i \in keep : \A j \in keep : i >= j))

Positive == Str(<<"P","o","s","i","t","i","v","e">>)
Negative == Str(<<"N","e","g","a","t","i","v","e">>)
Neutral == Str(<<"N","e","u","t","r","a","l">>)

\* class SentimentEnum
SentimentEnum == {Positive, Negative, Neutral}

SECTORS == <<"IT", "Banking", "Pharma", "Auto", "FMCG", "Energy", "Metals",
             "Real Estate", "Telecom", "Power">>

SectorSet == {SECTORS[i] : i \in DOMAIN SECTORS}

\* _sentiment_to_score with the lower() left out
sentiment_to_score_exact(s) ==
    IF s = Str(<<"p","o","s","i","t","i","v","e">>) THEN 1
    ELSE IF s = Str(<<"n","e","g","a","t","i","v","e">>) THEN -1
    ELSE 0

\* _sentiment_to_score: s = (s or '').lower(), then the two comparisons
sentiment_to_score(s) ==
    LET t == str_lower(IF s = None \/ s = Str(<<>>) THEN Str(<<>>) ELSE s) IN
    IF t = Str(<<"p","o","s","i","t","i","v","e">>) THEN 1
    ELSE IF t = Str(<<"n","e","g","a","t","i","v","e">>) THEN -1
    ELSE 0

\* Pipeline._sentiment_to_score, the same text as DailyAnalytics's
Pipeline_sentiment_to_score(s) ==
    LET t == str_lower(IF s = None \/ s = Str(<<>>) THEN Str(<<>>) ELSE s) IN
    IF t = Str(<<"p","o","s","i","t","i","v","e">>) THEN 1
    ELSE IF t = Str(<<"n","e","g","a","t","i","v","e">>) THEN -1
    ELSE 0

\* d.to_dict().get('sentiment', 'Neutral')
get_sentiment(doc) == IF doc.sentiment = Missing THEN Neutral ELSE doc.sentiment

\* sum(scores) of a list of scores
RECURSIVE SumSeq(_)
SumSeq(xs) ==
    IF xs = <<>> THEN 0 ELSE Head(xs) + SumSeq(Tail(xs))

\* round(num / den, 3), in thousandths (den > 0); the lists of the model
\* are too short for a tie at the fourth decimal
Round3(num, den) == (2000 * num + den) \div (2 * den)

----------------------------------------------------------------------------
(* Candidates of the completion service and their validation *)

Url(scheme, rest) == [scheme |-> scheme, rest |-> rest]

\* Field(..., regex=r'^https?://.+')
url_ok(u) == u.scheme \in {"http", "https"} /\ u.rest # ""

\* ArticleModel.v_tickers
v_tickers(v) ==
    LET kept == SelectSeq(v, LAMBDA t : t # None /\ t # Str(<<>>))
    IN [i \in 1..Len(kept) |-> str_strip(str_upper(kept[i]))]

\* ArticleModel.v_sectors: the valid tags as a set, listed in some order
\* (the tags of the model carry no surrounding blanks)
v_sectors(v) ==
    List(SelectSeq(SECTORS, LAMBDA x : \E i \in DOMAIN v : v[i] = x))

\* ArticleModel(**candidate) raises?
article_ok(c) == url_ok(c.url) /\ c.sentiment \in SentimentEnum

\* ArticleModel(**candidate).dict()
article_dict(c) ==
    [url |-> c.url, sentiment |-> c.sentiment,
     sectors |-> v_sectors(c.sectors), tickers |-> v_tickers(c.tickers)]

RawA ==
    [url |-> Url("https", "a"), sentiment |-> Positive,
     sectors |-> <<"IT">>, tickers |-> <<Str(<<"t","c","s">>)>>]
RawB ==
    [url |-> Url("http", "b"), sentiment |-> Negative,
     sectors |-> <<"Banking", "Crypto", "Banking">>,
     tickers |-> <<Str(<<" ">>), Str(<<"I","T","C"," ">>)>>]
RawBad ==
    [url |-> Url("ftp", "c"), sentiment |-> Str(<<"B","u","l","l">>),
     sectors |-> <<>>, tickers |-> <<>>]


\* the responses generate_content can give: an API error, text that is not
\* JSON, JSON whose "articles" is not a list of at most 50 objects, or a
\* JSON object with a list of candidates
ApiError == [kind |-> "api_error"]
NotJson == [kind |-> "not_json"]
BadList == [kind |-> "bad_list"]
\* No step depends on the order of the list (the list is validated as a
\* whole, filtered and saved item by item), so the lists are enumerated up
\* to the order of their items.
CandidateSeq == <<RawA, RawB, RawBad>>
Batches ==
    {[i \in DOMAIN f |-> CandidateSeq[f[i]]] :
        f \in {g \in UNION {[1..n -> DOMAIN CandidateSeq] : n \in 0..MaxBatch} :
                  \A i, j \in DOMAIN g : i < j => g[i] <= g[j]}}
Responses ==
    {ApiError, NotJson, BadList} \cup {[kind |-> "json", articles |-> b] : b \in Batches}

\* fetch_and_analyze, one attempt: does it raise?
attempt_raises(reply) ==
    \/ reply.kind # "json"
    \/ \E i \in DOMAIN reply.articles : ~article_ok(reply.articles[i])

\* fetch_and_analyze, one attempt that returns: [a.dict() for a in validated.articles]
attempt_result(reply) ==
    [i \in 1..Len(reply.articles) |-> article_dict(reply.articles[i])]

----------------------------------------------------------------------------
(* Pipeline.run, one step per call to the store or the completion service *)

\* a retry policy that stops after one attempt more
attempts_four == 2 + 2

MAX_ATTEMPTS == 3
DEDUP_HOURS == 24
WINDOW_HOURS == 6

PRuns == {"p1", "p2"}      \* ingestion runs that may overlap

ZeroStats == [fetched |-> 0, new_articles |-> 0, saved |-> 0, errors |-> 0]

\* a load that finds nothing
load_existing_urls_none(coll, t) == {}

\* _load_existing_urls: the url of every document published since the cutoff
load_existing_urls(coll, t) ==
    {coll[i].url : i \in {j \in DOMAIN coll : coll[j].publishedAt >= t - DEDUP_HOURS}}

\* _filter_new with each admitted url added to the set as it goes
RECURSIVE filter_new_admitting(_, _)
filter_new_admitting(arts, existing) ==
    IF arts = <<>> THEN <<>>
    ELSE IF Head(arts).url \notin existing
      THEN <<Head(arts)>> \o filter_new_admitting(Tail(arts), existing \cup {Head(arts).url})
      ELSE filter_new_admitting(Tail(arts), existing)

\* _filter_new: the candidates whose url is not in self.existing_urls
filter_new(arts, existing) ==
    SelectSeq(arts, LAMBDA a : a.url \notin existing)

\* the payloads _batch_save commits, stamped by the server
save_payloads(arts, t) ==
    [i \in 1..Len(arts) |->
        [url |-> arts[i].url, sentiment |-> arts[i].sentiment,
         sectors |-> arts[i].sectors, tickers |-> arts[i].tickers,
         publishedAt |-> t, processedAt |-> t]]

\* the query with the 24 h cutoff of the deduplication set
window_query_day(coll, t) ==
    SelectSeq(coll, LAMBDA d : d.publishedAt >= t - DEDUP_HOURS /\ d.publishedAt <= t)

\* the 6 h query of update_realtime_sentiment
window_query(coll, t) ==
    SelectSeq(coll, LAMBDA d : d.publishedAt >= t - WINDOW_HOURS /\ d.publishedAt <= t)

\* the loop of update_realtime_sentiment over the streamed documents
window_scores(streamed) ==
    [i \in 1..Len(streamed) |-> Pipeline_sentiment_to_score(get_sentiment(streamed[i]))]

\* a payload whose count adds to the count of the record in the slot
realtime_payload_carrying(sc, t) ==
    [averageScore |-> IF sc # <<>> THEN Round3(SumSeq(sc), Len(sc)) ELSE 0,
     lastUpdated |-> t,
     articlesAnalyzed |->
        Len(sc) + (IF current_sentiment # NoDoc
                     THEN current_sentiment.articlesAnalyzed ELSE 0),
     timeWindow |-> "6 hours"]

\* the payload update_realtime_sentiment writes; total counts the scores
realtime_payload(sc, t) ==
    [averageScore |-> IF sc # <<>> THEN Round3(SumSeq(sc), Len(sc)) ELSE 0,
     lastUpdated |-> t,
     articlesAnalyzed |-> Len(sc),
     timeWindow |-> "6 hours"]

InitStore ==
    /\ clock = 0
    /\ articles = <<>>

InitPipe ==
    /\ current_sentiment = NoDoc
    /\ ppc = [p \in PRuns |-> "idle"]
    /\ existing_urls = [p \in PRuns |-> {}]
    /\ new_articles = [p \in PRuns |-> <<>>]
    /\ stats = [p \in PRuns |-> ZeroStats]
    /\ attempt = [p \in PRuns |-> 0]
    /\ scores = [p \in PRuns |-> <<>>]
    /\ runs_started = 0

\* main returns {"statusCode": 200, "body": json.dumps(stats)}: the object
\* p, with its set of urls, and the locals of run are gone; stats[p] is the
\* body of the response
Respond(p) ==
    /\ ppc' = [ppc EXCEPT ![p] = "done"]
    /\ existing_urls' = [existing_urls EXCEPT ![p] = {}]
    /\ new_articles' = [new_articles EXCEPT ![p] = <<>>]

\* except Exception: stats["errors"] += 1; return stats
Fail(p) ==
    /\ stats' = [stats EXCEPT ![p].errors = @ + 1]
    /\ Respond(p)

\* main: p = Pipeline(); the constructor raises when the project id or the
\* secret is not available, and nothing catches it.
Begin(p, initOk) ==
    /\ ppc[p] = "idle"
    /\ runs_started < MaxRuns
    /\ p = "p2" => ppc["p1"] # "idle"     \* the free slots are interchangeable
    /\ runs_started' = runs_started + 1
    /\ ppc' = [ppc EXCEPT ![p] = IF initOk THEN "load" ELSE "crashed"]
    /\ UNCHANGED <<clock, articles, current_sentiment, existing_urls,
                   new_articles, stats, attempt, scores>>

\* self._load_existing_urls(): a store error propagates to run's except
LoadExistingUrls(p, ok) ==
    /\ ppc[p] = "load"
    /\ IF ok
         THEN /\ existing_urls' = [existing_urls EXCEPT ![p] =
                                      load_existing_urls(articles, clock)]
              /\ ppc' = [ppc EXCEPT ![p] = "fetch"]
              /\ UNCHANGED <<stats, new_articles>>
         ELSE Fail(p)
    /\ UNCHANGED <<clock, articles, current_sentiment, attempt,
                   scores, runs_started>>

\* run with a store query per candidate: a url is new when neither the
\* loaded set nor the collection, as it is now, has it
FetchAndAnalyze_checking(p, response) ==
    /\ ppc[p] = "fetch"
    /\ IF attempt_raises(response)
         THEN IF attempt[p] + 1 >= MAX_ATTEMPTS
                THEN /\ Fail(p)
                     /\ attempt' = [attempt EXCEPT ![p] = 0]
                ELSE /\ attempt' = [attempt EXCEPT ![p] = @ + 1]
                     /\ UNCHANGED <<ppc, stats, new_articles, existing_urls>>
         ELSE LET arts == attempt_result(response)
                  new == filter_new(arts, existing_urls[p]
                                            \cup {articles[i].url : i \in DOMAIN articles}) IN
              /\ attempt' = [attempt EXCEPT ![p] = 0]
              /\ new_articles' = [new_articles EXCEPT ![p] = new]
              /\ stats' = [stats EXCEPT ![p].fetched = Len(arts),
                                        ![p].new_articles = Len(new)]
              /\ ppc' = [ppc EXCEPT ![p] = "save"]
              /\ UNCHANGED existing_urls
    /\ UNCHANGED <<clock, articles, current_sentiment, scores, runs_started>>

\* articles = self.fetch_and_analyze(), one attempt of the retry decorator,
\* then new_articles = self._filter_new(articles) when it returned
\* The attempt count belongs to the decorated call and ends with it.
FetchAndAnalyze(p, response) ==
    /\ ppc[p] = "fetch"
    /\ IF attempt_raises(response)
         THEN IF attempt[p] + 1 >= MAX_ATTEMPTS
                THEN /\ Fail(p)
                     /\ attempt' = [attempt EXCEPT ![p] = 0]
                ELSE /\ attempt' = [attempt EXCEPT ![p] = @ + 1]
                     /\ UNCHANGED <<ppc, stats, new_articles, existing_urls>>
         ELSE LET arts == attempt_result(response)
                  new == filter_new(arts, existing_urls[p]) IN
              /\ attempt' = [attempt EXCEPT ![p] = 0]
              /\ new_articles' = [new_articles EXCEPT ![p] = new]
              /\ stats' = [stats EXCEPT ![p].fetched = Len(arts),
                                        ![p].new_articles = Len(new)]
              /\ ppc' = [ppc EXCEPT ![p] = "save"]
              /\ UNCHANGED existing_urls
    /\ UNCHANGED <<clock, articles, current_sentiment, scores, runs_started>>

\* a save that replaces the collection by the new documents
BatchSave_replacing(p, ok) ==
    /\ ppc[p] = "save"
    /\ Len(articles) + Len(new_articles[p]) <= MaxDocs
    /\ IF new_articles[p] = <<>>
         THEN /\ ppc' = [ppc EXCEPT ![p] = "rollread"]
              /\ UNCHANGED <<articles, stats, new_articles, existing_urls>>
         ELSE IF ok
           THEN /\ articles' = save_payloads(new_articles[p], clock)
                /\ stats' = [stats EXCEPT ![p].saved = Len(new_articles[p])]
                /\ ppc' = [ppc EXCEPT ![p] = "rollread"]
                /\ UNCHANGED <<new_articles, existing_urls>>
           ELSE /\ Fail(p)
                /\ articles' = articles
    /\ UNCHANGED <<clock, current_sentiment, attempt, scores, runs_started>>

\* a save that writes the documents one by one: a failure leaves the first
BatchSave_one_by_one(p, ok) ==
    /\ ppc[p] = "save"
    /\ Len(articles) + Len(new_articles[p]) <= MaxDocs
    /\ IF new_articles[p] = <<>>
         THEN /\ ppc' = [ppc EXCEPT ![p] = "rollread"]
              /\ UNCHANGED <<articles, stats, new_articles, existing_urls>>
         ELSE IF ok
           THEN /\ articles' = articles \o save_payloads(new_articles[p], clock)
                /\ stats' = [stats EXCEPT ![p].saved = Len(new_articles[p])]
                /\ ppc' = [ppc EXCEPT ![p] = "rollread"]
                /\ UNCHANGED <<new_articles, existing_urls>>
           ELSE /\ Fail(p)
                /\ articles' = articles \o save_payloads(<<Head(new_articles[p])>>, clock)
    /\ UNCHANGED <<clock, current_sentiment, attempt, scores, runs_started>>

\* stats["saved"] = self._batch_save(new_articles)
BatchSave(p, ok) ==
    /\ ppc[p] = "save"
    /\ Len(articles) + Len(new_articles[p]) <= MaxDocs
    /\ IF new_articles[p] = <<>>
         THEN /\ ppc' = [ppc EXCEPT ![p] = "rollread"]
              /\ UNCHANGED <<articles, stats, new_articles, existing_urls>>
         ELSE IF ok
           THEN /\ articles' = articles \o save_payloads(new_articles[p], clock)
                /\ stats' = [stats EXCEPT ![p].saved = Len(new_articles[p])]
                /\ ppc' = [ppc EXCEPT ![p] = "rollread"]
                /\ UNCHANGED <<new_articles, existing_urls>>
           ELSE /\ Fail(p)
                /\ articles' = articles
    /\ UNCHANGED <<clock, current_sentiment, attempt, scores, runs_started>>

\* update_realtime_sentiment: for d in q.stream()
RollingRead(p, ok) ==
    /\ ppc[p] = "rollread"
    /\ IF ok
         THEN /\ scores' = [scores EXCEPT ![p] =
                              window_scores(window_query(articles, clock))]
              /\ ppc' = [ppc EXCEPT ![p] = "rollwrite"]
              /\ UNCHANGED <<stats, new_articles, existing_urls>>
         ELSE /\ Fail(p)
              /\ scores' = scores
    /\ UNCHANGED <<clock, articles, current_sentiment, attempt, runs_started>>

\* update_realtime_sentiment: doc.set(payload); the call is over, with its
\* local `scores`, and run returns stats
RollingWrite(p, ok) ==
    /\ ppc[p] = "rollwrite"
    /\ IF ok
         THEN /\ current_sentiment' = realtime_payload(scores[p], clock)
              /\ Respond(p)
              /\ stats' = stats
         ELSE /\ Fail(p)
              /\ current_sentiment' = current_sentiment
    /\ scores' = [scores EXCEPT ![p] = <<>>]
    /\ UNCHANGED <<clock, articles, attempt, runs_started>>

\* the response has been delivered, or the constructor's exception has
\* left main; the slot serves the next run
Return(p) ==
    /\ ppc[p] \in {"done", "crashed"}
    /\ ppc' = [ppc EXCEPT ![p] = "idle"]
    /\ existing_urls' = [existing_urls EXCEPT ![p] = {}]
    /\ new_articles' = [new_articles EXCEPT ![p] = <<>>]
    /\ stats' = [stats EXCEPT ![p] = ZeroStats]
    /\ attempt' = [attempt EXCEPT ![p] = 0]
    /\ scores' = [scores EXCEPT ![p] = <<>>]
    /\ UNCHANGED <<clock, articles, current_sentiment, runs_started>>

\* Time passes on the store side.  A run lasts minutes (five calls and two
\* back-offs of at most 10 s) and so does a daily job, a clock step hours,
\* so the clock steps between runs.
ClockTick ==
    /\ clock + ClockStep <= MaxClock
    /\ \A p \in PRuns : ppc[p] = "idle"
    /\ dpc = "idle"
    /\ clock' = clock + ClockStep
    /\ UNCHANGED <<articles, pipeVars, dailyVars>>

PipeStep ==
    \/ \E p \in PRuns, initOk \in BOOLEAN : Begin(p, initOk)
    \/ \E p \in PRuns, ok \in BOOLEAN : LoadExistingUrls(p, ok)
    \/ \E p \in PRuns, response \in Responses : FetchAndAnalyze(p, response)
    \/ \E p \in PRuns, ok \in BOOLEAN : BatchSave(p, ok)
    \/ \E p \in PRuns, ok \in BOOLEAN : RollingRead(p, ok)
    \/ \E p \in PRuns, ok \in BOOLEAN : RollingWrite(p, ok)
    \/ \E p \in PRuns : Return(p)
    \/ ClockTick

----------------------------------------------------------------------------
(* DailyAnalytics.calculate and main of src/analytics/main.py, one step    *)
(* per call to the store                                                   *)

DAY_HOURS == 24

\* firestore.SERVER_TIMESTAMP, the sentinel the server replaces on write
SERVER_TIMESTAMP == [kind |-> "Sentinel"]

\* a document of the collection as some writer left it; the writers of
\* 'sectors' (v_sectors, validate_sectors) store each tag once
Seed(t, sentiment, sectors) ==
    [url |-> Url("https", "s"), sentiment |-> sentiment, sectors |-> sectors,
     tickers |-> <<>>, publishedAt |-> t, processedAt |-> t]

Seeds ==
    { Seed(0, Positive, List(<<"IT">>)),
      Seed(0, Negative, List(<<"Banking">>)),
      Seed(0, Neutral, List(<<>>)),
      Seed(18, Str(<<"N","E","G","A","T","I","V","E">>), List(<<"Banking", "Crypto">>)),
      Seed(18, Missing, Missing),
      Seed(18, Str(<<>>), List(<<"Auto", "IT">>)),
      Seed(24, None, None) }

InitSeededStore ==
    /\ clock = 0
    /\ articles \in UNION {[1..n -> Seeds] : n \in 0..MaxStore}

\* datetime.utcnow().replace(hour=0, minute=0, second=0, microsecond=0)
day_of(t) == (t \div DAY_HOURS) * DAY_HOURS

\* a key that is the same for every day
strftime_fixed(d) == [date |-> 0]

\* day.strftime("%Y-%m-%d"): the calendar day
strftime(d) == [date |-> d \div DAY_HOURS]

Dates == {strftime(d) : d \in 0..MaxClock}

\* a document snapshot; documents are named by their place in the collection
Snapshot(coll, i) == [name |-> i, data |-> coll[i]]

\* the order of the query: publishedAt, then the document name
KeyLess(a, b) ==
    \/ a.data.publishedAt < b.data.publishedAt
    \/ a.data.publishedAt = b.data.publishedAt /\ a.name < b.name

\* order_by('publishedAt') over a set of snapshots
RECURSIVE order_by(_)
order_by(snaps) ==
    IF snaps = {} THEN <<>>
    ELSE LET m == CHOOSE x \in snaps : \A y \in snaps : x = y \/ KeyLess(x, y)
         IN <<m>> \o order_by(snaps \ {m})

\* the page query with limit(self.batch_size) left out
page_query_unlimited(coll, start, end, cursor) ==
    LET all == {Snapshot(coll, i) : i \in DOMAIN coll}
        hits == {x \in all : /\ x.data.publishedAt >= start
                             /\ x.data.publishedAt < end
                             /\ cursor # None => KeyLess(cursor, x)}
    IN order_by(hits)

\* the page query with the end of the range included
page_query_closed(coll, start, end, cursor) ==
    LET all == {Snapshot(coll, i) : i \in DOMAIN coll}
        hits == {x \in all : /\ x.data.publishedAt >= start
                             /\ x.data.publishedAt <= end
                             /\ cursor # None => KeyLess(cursor, x)}
        sorted == order_by(hits)
    IN SubSeq(sorted, 1, IF Len(sorted) < batch_size THEN Len(sorted) ELSE batch_size)

\* the page query with a cursor that compares publishedAt alone
page_query_by_time(coll, start, end, cursor) ==
    LET all == {Snapshot(coll, i) : i \in DOMAIN coll}
        hits == {x \in all : /\ x.data.publishedAt >= start
                             /\ x.data.publishedAt < end
                             /\ cursor # None =>
                                   cursor.data.publishedAt < x.data.publishedAt}
        sorted == order_by(hits)
    IN SubSeq(sorted, 1, IF Len(sorted) < batch_size THEN Len(sorted) ELSE batch_size)

\* list(cur_q.stream()): where publishedAt >= start, < end, ordered,
\* start_after(cursor) if there is one, limit(batch_size)
page_query(coll, start, end, cursor) ==
    LET all == {Snapshot(coll, i) : i \in DOMAIN coll}
        hits == {x \in all : /\ x.data.publishedAt >= start
                             /\ x.data.publishedAt < end
                             /\ cursor # None => KeyLess(cursor, x)}
        sorted == order_by(hits)
    IN SubSeq(sorted, 1, IF Len(sorted) < batch_size THEN Len(sorted) ELSE batch_size)

\* the loop left on an empty page only
scan_ends_on_empty(page) == page = <<>>

\* the loop with both breaks left out
scan_goes_on(page) == FALSE

\* if not docs: break ... if len(docs) < self.batch_size: break
scan_ends(page) == page = <<>> \/ Len(page) < batch_size

\* data.get('sectors') or []
get_sectors(data) ==
    IF data.sectors = Missing \/ data.sectors = None \/ data.sectors = List(<<>>)
      THEN <<>>
      ELSE data.sectors.items

\* sectors[s] = [score]: the list replaced instead of extended
dd_append_replace(sectors, s, score) ==
    [k \in DOMAIN sectors \cup {s} |-> IF k = s THEN <<score>> ELSE sectors[k]]

\* sectors[s].append(score) on a defaultdict(list)
dd_append(sectors, s, score) ==
    [k \in DOMAIN sectors \cup {s} |->
        IF k = s THEN (IF s \in DOMAIN sectors THEN sectors[s] ELSE <<>>) \o <<score>>
        ELSE sectors[k]]

\* the inner loop of _process_batch: for s in tags: if s in SECTORS: append
RECURSIVE append_tags(_, _, _)
append_tags(sectors, tags, score) ==
    IF tags = <<>> THEN sectors
    ELSE append_tags(IF Head(tags) \in SectorSet
                       THEN dd_append(sectors, Head(tags), score)
                       ELSE sectors,
                     Tail(tags), score)

\* _process_batch(docs, overall, sectors): the two lists after the loop
RECURSIVE process_batch(_, _, _)
process_batch(page, overall, sectors) ==
    IF page = <<>> THEN [overall |-> overall, sectors |-> sectors]
    ELSE LET data == Head(page).data
             score == sentiment_to_score(get_sentiment(data))
         IN process_batch(Tail(page), Append(overall, score),
                          append_tags(sectors, get_sectors(data), score))

\* sector_scores.get(s, [])
dd_get(sectors, s) == IF s \in DOMAIN sectors THEN sectors[s] ELSE <<>>

\* breakdown over the sectors that were observed only
breakdown_observed(sectors) ==
    [s \in DOMAIN sectors |-> Round3(SumSeq(sectors[s]), Len(sectors[s]))]

\* breakdown = {}; for s in SECTORS: breakdown[s] = round(mean, 3) or 0.0
breakdown_of(sectors) ==
    [s \in SectorSet |->
        IF dd_get(sectors, s) # <<>>
          THEN Round3(SumSeq(dd_get(sectors, s)), Len(dd_get(sectors, s)))
          ELSE 0]

\* the result with the count added to the one already stored for the date
result_of_accumulating(d, overall, sectors, n) ==
    [date |-> strftime(d),
     overallSentimentScore |->
        IF overall # <<>> THEN Round3(SumSeq(overall), Len(overall)) ELSE 0,
     articlesAnalyzed |->
        n + (IF sentiment_history[strftime(d)] # NoDoc
               THEN sentiment_history[strftime(d)].articlesAnalyzed ELSE 0),
     sectorBreakdown |-> breakdown_of(sectors),
     lastUpdated |-> SERVER_TIMESTAMP]

\* result = {...} of calculate, scores in thousandths
result_of(d, overall, sectors, n) ==
    [date |-> strftime(d),
     overallSentimentScore |->
        IF overall # <<>> THEN Round3(SumSeq(overall), Len(overall)) ELSE 0,
     articlesAnalyzed |-> n,
     sectorBreakdown |-> breakdown_of(sectors),
     lastUpdated |-> SERVER_TIMESTAMP]

\* json.dumps(data) raises TypeError on a value that is not a JSON type
json_dumps_raises(data) == data.lastUpdated = SERVER_TIMESTAMP

InitDaily ==
    /\ dpc = "idle"
    /\ day = 0
    /\ last = None
    /\ docs = <<>>
    /\ incoming = <<>>
    /\ overall_scores = <<>>
    /\ sector_scores = <<>>
    /\ total = 0
    /\ result = None
    /\ dresp = None
    /\ queries = 0
    /\ sentiment_history = [d \in Dates |-> NoDoc]
    /\ writes = [d \in Dates |-> 0]
    /\ daily_started = 0

\* main calls DailyAnalytics().calculate(): the day and the empty locals
DailyBegin ==
    /\ dpc = "idle"
    /\ daily_started < MaxDaily
    /\ daily_started' = daily_started + 1
    /\ day' = day_of(clock)
    /\ last' = None
    /\ docs' = <<>>
    /\ incoming' = <<>>
    /\ overall_scores' = <<>>
    /\ sector_scores' = <<>>
    /\ total' = 0
    /\ result' = None
    /\ dresp' = None
    /\ queries' = 0
    /\ dpc' = "scan"
    /\ UNCHANGED <<clock, articles, sentiment_history, writes>>

\* except Exception as e in main: 500 and the error
DailyError ==
    /\ dresp' = [statusCode |-> 500, body |-> [error |-> "error"]]
    /\ dpc' = "done"

\* one turn of `while True`, first half: list(cur_q.stream()) is evaluated
\* while `docs` still names the previous page; a store error leaves calculate
FetchPage(ok) ==
    /\ dpc = "scan"
    /\ queries' = queries + 1
    /\ IF ok
         THEN /\ incoming' = page_query(articles, day, day + DAY_HOURS, last)
              /\ dpc' = "fold"
              /\ dresp' = dresp
         ELSE /\ DailyError
              /\ incoming' = incoming
    /\ UNCHANGED <<clock, articles, day, last, docs, overall_scores,
                   sector_scores, total, result, sentiment_history,
                   writes, daily_started>>

\* second half: the list is bound to `docs`, folded, the cursor moves, and
\* the loop is left on an empty or a short page
FoldPage ==
    /\ dpc = "fold"
    /\ LET page == incoming
           folded == process_batch(page, overall_scores, sector_scores)
       IN /\ docs' = page
          /\ incoming' = <<>>
          /\ IF page = <<>>
               THEN UNCHANGED <<overall_scores, sector_scores, total, last>>
               ELSE /\ overall_scores' = folded.overall
                    /\ sector_scores' = folded.sectors
                    /\ total' = total + Len(page)
                    /\ last' = page[Len(page)]
          /\ dpc' = IF scan_ends(page) THEN "write" ELSE "scan"
    /\ UNCHANGED <<clock, articles, day, result, dresp, queries,
                   sentiment_history, writes, daily_started>>

\* the result is built and document(result['date']).set(result) is called
WriteRecord(ok) ==
    /\ dpc = "write"
    /\ result' = result_of(day, overall_scores, sector_scores, total)
    /\ IF ok
         THEN /\ sentiment_history' =
                    [sentiment_history EXCEPT ![result'.date] =
                        [result' EXCEPT !.lastUpdated = clock]]
              /\ writes' = [writes EXCEPT ![result'.date] = @ + 1]
              /\ dpc' = "return"
              /\ dresp' = dresp
         ELSE /\ DailyError
              /\ UNCHANGED <<sentiment_history, writes>>
    /\ UNCHANGED <<clock, articles, day, last, docs, incoming, overall_scores,
                   sector_scores, total, queries, daily_started>>

\* main: return {"statusCode": 200, "body": json.dumps(data)}, inside the try
DailyReturn ==
    /\ dpc = "return"
    /\ IF json_dumps_raises(result)
         THEN DailyError
         ELSE /\ dresp' = [statusCode |-> 200, body |-> result]
              /\ dpc' = "done"
    /\ UNCHANGED <<clock, articles, day, last, docs, incoming, overall_scores,
                   sector_scores, total, result, queries, sentiment_history,
                   writes, daily_started>>

\* the job is over; the next one may start
DailyFinish ==
    /\ dpc = "done"
    /\ dpc' = "idle"
    /\ UNCHANGED <<clock, articles, day, last, docs, incoming, overall_scores,
                   sector_scores, total, result, dresp, queries,
                   sentiment_history, writes, daily_started>>

DailyStep ==
    \/ DailyBegin
    \/ \E ok \in BOOLEAN : FetchPage(ok)
    \/ FoldPage
    \/ \E ok \in BOOLEAN : WriteRecord(ok)
    \/ DailyReturn
    \/ DailyFinish
    \/ ClockTick

----------------------------------------------------------------------------
(* The score each aggregator gives to one stored 'sentiment' value *)

\* the values a document can hold in 'sentiment': absent, null, or a string
StoredLabels ==
    {Missing, None, Str(<<>>), Positive, Negative, Neutral,
     Str(<<"p","o","s","i","t","i","v","e">>),
     Str(<<"P","O","S","I","T","I","V","E">>),
     Str(<<"n","e","g","a","t","i","v","e">>),
     Str(<<"N","E","G","A","T","I","V","E">>),
     Str(<<"n","e","u","t","r","a","l">>),
     Str(<<"B","u","l","l">>),
     Str(<<"P","o","s">>),
     Str(<<" ","P","o","s","i","t","i","v","e">>)}

Scored(n) == [kind |-> "score", value |-> n]
Raised == [kind |-> "raise"]

\* NewsPipelineHardenedWithSentiment._sentiment_to_score: sentiment.lower()
\* raises AttributeError on None
Hardened_sentiment_to_score(s) ==
    IF s = None THEN Raised
    ELSE LET t == str_lower(s) IN
         IF t = Str(<<"p","o","s","i","t","i","v","e">>) THEN Scored(1)
         ELSE IF t = Str(<<"n","e","g","a","t","i","v","e">>) THEN Scored(-1)
         ELSE Scored(0)

InitScore ==
    /\ label = Unset
    /\ rolling = Unset
    /\ daily = Unset
    /\ rolling_hardened = Unset

\* a document with this 'sentiment' value is in the collection
StoreLabel(l) ==
    /\ label = Unset
    /\ label' = l
    /\ UNCHANGED <<rolling, daily, rolling_hardened>>

\* update_realtime_sentiment: _sentiment_to_score(d.to_dict().get('sentiment', 'Neutral'))
ScoreRolling ==
    /\ label # Unset /\ rolling = Unset
    /\ rolling' = Scored(Pipeline_sentiment_to_score(get_sentiment([sentiment |-> label])))
    /\ UNCHANGED <<label, daily, rolling_hardened>>

\* _process_batch: _sentiment_to_score(data.get('sentiment', 'Neutral'))
ScoreDaily ==
    /\ label # Unset /\ daily = Unset
    /\ daily' = Scored(sentiment_to_score(get_sentiment([sentiment |-> label])))
    /\ UNCHANGED <<label, rolling, rolling_hardened>>

\* calculate_and_save_real_time_sentiment:
\* _sentiment_to_score(article.get('sentiment', 'Neutral'))
ScoreRollingHardened ==
    /\ label # Unset /\ rolling_hardened = Unset
    /\ rolling_hardened' = Hardened_sentiment_to_score(get_sentiment([sentiment |-> label]))
    /\ UNCHANGED <<label, rolling, daily>>

ScoreStep ==
    \/ \E l \in StoredLabels : StoreLabel(l)
    \/ ScoreRolling
    \/ ScoreDaily
    \/ ScoreRollingHardened

----------------------------------------------------------------------------
(* Specifications *)

Init == InitCache /\ InitStore /\ InitPipe /\ InitDaily /\ InitScore

\* the daily job is studied over a collection other writers have filled
InitSeeded == InitCache /\ InitSeededStore /\ InitPipe /\ InitDaily /\ InitScore

NextCache == CacheStep /\ UNCHANGED <<storeVars, pipeVars, dailyVars, scoreVars>>
NextPipe == PipeStep /\ UNCHANGED <<cacheVars, dailyVars, scoreVars>>
NextDaily == DailyStep /\ UNCHANGED <<cacheVars, pipeVars, scoreVars>>
NextScore == ScoreStep /\ UNCHANGED <<cacheVars, storeVars, pipeVars, dailyVars>>

Next == NextCache \/ NextPipe \/ NextDaily \/ NextScore

Spec == Init /\ [][Next]_vars
SpecCache == Init /\ [][NextCache]_vars
SpecPipe == Init /\ [][NextPipe]_vars
SpecDaily == InitSeeded /\ [][NextDaily]_vars
SpecScore == Init /\ [][NextScore]_vars

\* calculate is sequential code: a called store answers or raises (the
\* client has deadlines), and the statement after a call is executed
ScanStep ==
    /\ (\E ok \in BOOLEAN : FetchPage(ok)) \/ FoldPage
    /\ UNCHANGED <<cacheVars, pipeVars, scoreVars>>

\* documents that differ in nothing but their publishedAt
ScanSeeds == {Seed(t, Positive, List(<<"IT">>)) : t \in {0, ClockStep, DAY_HOURS}}

\* a writer adds a document to the collection before the job is triggered
SeedStore(doc) ==
    /\ dpc = "idle" /\ daily_started = 0
    /\ Len(articles) < MaxStore
    /\ articles' = Append(articles, doc)
    /\ UNCHANGED <<clock, dailyVars>>

\* one invocation of the daily job, from the trigger to the response, over
\* a collection that was filled before
OneJobStep ==
    \/ \E doc \in ScanSeeds : SeedStore(doc)
    \/ ClockTick
    \/ DailyBegin
    \/ \E ok \in BOOLEAN : FetchPage(ok)
    \/ FoldPage
    \/ \E ok \in BOOLEAN : WriteRecord(ok)
    \/ DailyReturn

NextOneJob == OneJobStep /\ UNCHANGED <<cacheVars, pipeVars, scoreVars>>
SpecScanFair == Init /\ [][NextOneJob]_vars /\ WF_vars(ScanStep)

----------------------------------------------------------------------------
(* Claims about the cache ladder.  The ladder is stated for a request that *)
(* passed the App Check gate and whose Redis calls all answered; the       *)
(* unreachable backend is the separate case of C6.                         *)

\* q takes a step of market_data_route in this transition
Steps(q) == pc'[q] # pc[q]

\* q reached Redis and none of its Redis calls has failed
Reached(q) == r[q] = Handle /\ log[q] = {}

\* the payload a SETEX stored, with the staleness marker added
Marked(entry) == [Loads(entry.val) EXCEPT !.warning = TRUE]

\* C1: a request whose fetch failed, at a time when the key had been
\* written earlier and that entry is past the 300 s TTL, returns the old
\* value with status 200 and the warning marker, not 503.
C1_StaleAfterExpiry ==
    [][\A q \in Reqs :
         (/\ pc[q] = "get2" /\ pc'[q] = "done"
          /\ Reached(q) /\ log'[q] = {}
          /\ live[q] = None
          /\ lastSet # NoEntry
          /\ now - lastSet.setAt >= CACHE_TTL)
         => (/\ resp'[q].status = 200
             /\ resp'[q].body = Marked(lastSet))]_vars

\* C2: a request whose first lookup finds the key set returns exactly that
\* entry with status 200 and no warning, never calls get_market_data_live
\* (so neither the secret lookup nor a quote call), and no step of it
\* changes the key.
C2_FreshHit ==
    /\ [][\A q \in Reqs :
            (/\ pc[q] = "get1" /\ Steps(q)
             /\ Reached(q) /\ log'[q] = {}
             /\ redisStore # NoEntry)
            => (/\ pc'[q] = "done"
                /\ resp'[q] = [status |-> 200, body |-> Loads(redisStore.val)]
                /\ resp'[q].body.warning = FALSE
                /\ live'[q] = Unset)]_vars
    /\ [][\A q \in Reqs :
            (Steps(q) /\ (Truthy(cached[q]) \/ Truthy(cached'[q])))
            => (redisStore' = redisStore /\ live'[q] = Unset)]_vars
    /\ [](redisStore # NoEntry => now - redisStore.setAt < CACHE_TTL)

C2_Witness ==
    \E q \in Reqs :
        /\ pc[q] = "done" /\ Reached(q)
        /\ Truthy(cached[q])
        /\ resp[q] = [status |-> 200, body |-> cached[q]]
        /\ live[q] = Unset
        /\ redisStore # NoEntry /\ cached[q] = Loads(redisStore.val)

\* C3: a request that missed on its first lookup and fetched successfully
\* SETEXes the fetched payload under the key, stamped now, and returns that
\* same payload with status 200; right after, a lookup returns that payload
\* and the entry is within its TTL.
C3_MissFetchStore ==
    [][\A q \in Reqs :
         (/\ pc[q] = "set" /\ pc'[q] = "done"
          /\ Reached(q) /\ log'[q] = {})
         => (/\ cached[q] = None
             /\ Truthy(live[q])
             /\ redisStore' = SetexEntry(live[q], now)
             /\ resp'[q] = [status |-> 200, body |-> live[q]]
             /\ live[q].warning = FALSE
             /\ Loads(RedisGet') = resp'[q].body
             /\ ~Expired(redisStore', now'))]_vars

\* a request stored what it fetched and the other one was then served that
\* payload from the key without fetching
C3_Witness ==
    \E q \in Reqs, p \in Reqs :
        /\ p # q
        /\ pc[q] = "done" /\ Reached(q) /\ Truthy(live[q])
        /\ resp[q] = [status |-> 200, body |-> live[q]]
        /\ redisStore = SetexEntry(live[q], live[q].lastUpdated)
        /\ pc[p] = "done" /\ cached[p] = live[q] /\ live[p] = Unset

\* C4: the route answers 503 exactly when the key was never written and the
\* fetch failed, and 200 otherwise.
C4_UnavailableOnlyWhenCold ==
    [][\A q \in Reqs :
         (/\ Steps(q) /\ pc'[q] = "done"
          /\ Reached(q) /\ log'[q] = {})
         => (/\ resp'[q].status \in {200, 503}
             /\ resp'[q].status = 503 <=> (lastSet = NoEntry /\ live[q] = None))]_vars

\* C5: a failed quote call counts as a failed fetch: no payload built after
\* a failed quote call is returned with status 200 or stored under the key.
C5_FailedQuoteIsFailedFetch ==
    /\ \A q \in Reqs :
          (pc[q] = "done" /\ resp[q].status = 200)
          => resp[q].body.indices = <<NIFTY, SENSEX>>
    /\ redisStore # NoEntry => Loads(redisStore.val).indices = <<NIFTY, SENSEX>>

\* C6: a request for which redis_client() returned None reads a miss, calls
\* the fetcher, returns the fetched payload with status 200 when the fetch
\* succeeded (503 only when the fetch failed too), and never writes the key.
C6_BackendDown ==
    /\ [](\A q \in Reqs :
            (pc[q] = "done" /\ r[q] = None)
            => (/\ cached[q] = None
                /\ live[q] # Unset
                /\ Truthy(live[q]) => resp[q] = [status |-> 200, body |-> live[q]]
                /\ ~Truthy(live[q]) => (stale[q] = None /\ resp[q].status = 503)))
    /\ [][\A q \in Reqs : (Steps(q) /\ r[q] = None) => redisStore' = redisStore]_vars

C6_Witness ==
    \E q \in Reqs :
        /\ pc[q] = "done" /\ r[q] = None
        /\ Truthy(live[q])
        /\ resp[q] = [status |-> 200, body |-> live[q]]
        /\ redisStore = NoEntry

\* C32: requests that overlap and all miss on their first lookup each call
\* the fetcher and, the fetch succeeding, each SETEX the key; every one of
\* them returns the payload it fetched itself, each SETEX replaces the
\* whole entry by the writer's payload, and once they have all returned the
\* key holds the entry of the SETEX that came last, which is the payload of
\* one of them.
Wrote(q) ==
    /\ pc[q] = "done" /\ Reached(q)
    /\ cached[q] = None /\ Truthy(live[q])

C32_LastWriterWins ==
    /\ [](\A q \in Reqs :
            (pc[q] = "done" /\ cached[q] = None)
            => (/\ live[q] # Unset
                /\ Truthy(live[q]) => resp[q] = [status |-> 200, body |-> live[q]]))
    /\ [][\A q \in Reqs :
            (/\ pc[q] = "set" /\ pc'[q] = "done"
             /\ Reached(q) /\ log'[q] = {})
            => (/\ redisStore' = SetexEntry(live[q], now)
                /\ lastSet' = redisStore')]_vars
    /\ []((\A q \in Reqs : Wrote(q))
            => (/\ redisStore = lastSet
                /\ \E q \in Reqs : Loads(redisStore.val) = live[q]))

\* both requests missed, fetched different payloads and stored them; each
\* returned its own, and the key holds one of the two
C32_Witness ==
    /\ \A q \in Reqs : Wrote(q) /\ resp[q] = [status |-> 200, body |-> live[q]]
    /\ live["q1"] # live["q2"]
    /\ redisStore # NoEntry
    /\ Loads(redisStore.val) \in {live["q1"], live["q2"]}

\* C34: once the key has been written, a lookup made at any later time
\* returns the value written last, also after the 300 s TTL has run out.
C34_RetrievablePastTTL ==
    lastSet # NoEntry => get_cached(Handle, TRUE) = Loads(lastSet.val)

\* C36: a request without a valid App Check token is answered 401 in the
\* step that checks the token; it never gets a Redis handle, makes no
\* lookup, no fetch and no write, and the key is as it was when it arrived.
C36_AuthGateFirst ==
    /\ [][\A q \in Reqs :
            Arrive(q, FALSE)
            => (/\ pc'[q] = "done"
                /\ resp'[q] = [status |-> 401, body |-> UnauthorizedBody]
                /\ redisStore' = redisStore /\ lastSet' = lastSet)]_vars
    /\ [](\A q \in Reqs :
            (pc[q] = "done" /\ resp[q].status = 401)
            => (/\ r[q] = Unset /\ cached[q] = Unset
                /\ live[q] = Unset /\ stale[q] = Unset /\ log[q] = {}))
    /\ [][\A q \in Reqs :
            (pc[q] = "done" /\ resp[q].status = 401 /\ Steps(q))
            => (pc'[q] = "idle" /\ redisStore' = redisStore)]_vars

\* a request was turned away while the key held an entry another request
\* had stored, and the entry is still there
C36_Witness ==
    \E q \in Reqs :
        /\ pc[q] = "done" /\ resp[q] = [status |-> 401, body |-> UnauthorizedBody]
        /\ r[q] = Unset /\ live[q] = Unset
        /\ redisStore # NoEntry /\ redisStore = lastSet

\* C37: the second lookup is the same get_cached as the first.  A request
\* whose first lookup truly missed (no Redis error) and whose fetch failed
\* answers 503 unless a SETEX has stored the key since that lookup: it
\* answers 200 with the marker exactly when the value written last was
\* written after its first lookup.  Every stale answer carries the entry
\* the key holds at that moment, and comes either after such a write or
\* after a first lookup that failed with a Redis error.
WrittenSince(q) == lastSet # NoEntry /\ lastSet.setAt = now

C37_StaleReached ==
    \E q \in Reqs :
        /\ pc[q] = "done" /\ Reached(q)
        /\ cached[q] = None /\ live[q] = None
        /\ resp[q].status = 200 /\ resp[q].body = Marked(redisStore)

----------------------------------------------------------------------------
(* Claims about the ingestion run *)

\* the documents the commit of this transition adds to the collection
Added == SubSeq(articles', Len(articles) + 1, Len(articles'))

\* C7: what one ingestion run persists: no document whose url was in the
\* 24 h set the run loaded, and no two documents with the same url, also
\* when the incoming batch holds the same new url twice.
C7_DedupWithinRun ==
    [][\A p \in PRuns :
         (ppc[p] = "save" /\ ppc'[p] = "rollread")
         => (/\ \A i \in DOMAIN Added : Added[i].url \notin existing_urls[p]
             /\ \A i, j \in DOMAIN Added :
                   Added[i].url = Added[j].url => i = j)]_vars

\* C8: the initial load of the deduplication set never ends the run: after
\* it the run goes on to fetch, with no error counted, holding either the
\* loaded set or, when the store failed, the empty set.
C8_LoadFailureIsOpen ==
    [][\A p \in PRuns :
         (ppc[p] = "load" /\ ppc'[p] # "load")
         => (/\ ppc'[p] = "fetch"
             /\ stats'[p].errors = 0
             /\ existing_urls'[p] \in {{}, load_existing_urls(articles, clock)})]_vars

\* C18: when no document has publishedAt inside the trailing 6 h window,
\* the rolling aggregator writes a record with averageScore 0 and
\* articlesAnalyzed 0 that carries no error flag.
C18_EmptyWindow ==
    [][\A p \in PRuns :
         (/\ ppc[p] = "rollwrite" /\ ppc'[p] = "done"
          /\ stats'[p].errors = stats[p].errors
          /\ \A i \in DOMAIN articles :
                ~(/\ articles[i].publishedAt >= clock - WINDOW_HOURS
                  /\ articles[i].publishedAt <= clock))
         => (/\ current_sentiment'.averageScore = 0
             /\ current_sentiment'.articlesAnalyzed = 0
             /\ current_sentiment'.lastUpdated = clock
             /\ "error" \notin DOMAIN current_sentiment')]_vars

\* the collection holds documents, all older than the window, and a run
\* has written the empty-window record
C18_Witness ==
    \E p \in PRuns :
        /\ ppc[p] = "done" /\ stats[p].errors = 0
        /\ articles # <<>>
        /\ \A i \in DOMAIN articles : articles[i].publishedAt < clock - WINDOW_HOURS
        /\ current_sentiment # NoDoc
        /\ current_sentiment.lastUpdated = clock
        /\ current_sentiment.averageScore = 0
        /\ current_sentiment.articlesAnalyzed = 0

\* the candidates of a batch that pass ArticleModel, as dictionaries
ValidOf(batch) == attempt_result(SelectSeq(batch, article_ok))

\* a batch with at least one candidate that passes and one that fails
Mixed(batch) ==
    /\ \E i \in DOMAIN batch : article_ok(batch[i])
    /\ \E i \in DOMAIN batch : ~article_ok(batch[i])

\* C19: batch validation is lenient: when a fetched batch holds candidates
\* that fail the schema and candidates that pass, the call returns, the
\* invalid ones are skipped and every valid one goes on to deduplication
\* and to persistence.
C19_LenientBatch ==
    [][\A p \in PRuns : \A response \in Responses :
         (/\ response.kind = "json" /\ Mixed(response.articles)
          /\ FetchAndAnalyze(p, response))
         => (/\ ppc'[p] = "save"
             /\ stats'[p].fetched = Len(ValidOf(response.articles))
             /\ new_articles'[p] =
                   filter_new(ValidOf(response.articles), existing_urls[p]))]_vars

\* C20: a response that is not parseable JSON, or that fails the schema of
\* the list, is discarded as a whole and ends the fetch: the run goes on
\* with zero admitted records, or ends, and never crashes; it persists
\* nothing.
C20_MalformedDiscarded ==
    [][\A p \in PRuns : \A response \in {NotJson, BadList} :
         FetchAndAnalyze(p, response)
         => (/\ ppc'[p] \in {"save", "done"}
             /\ new_articles'[p] = <<>>
             /\ articles' = articles)]_vars

\* C22: no failure of a collaborator escapes the entry point of the
\* ingestion run: an invocation never ends by an exception leaving main.
C22_NothingEscapes == \A p \in PRuns : ppc[p] # "crashed"

\* C26: the completion service is called at most 3 times in one run: a
\* call is made only with fewer than 3 failed attempts behind it, the run
\* stays at the call only after an attempt that failed (nothing else of
\* the run changes), an attempt that succeeds ends the retries, and the
\* third failure ends the run with one error counted and nothing saved.
C26_ThreeAttempts ==
    [][\A p \in PRuns :
         (ppc[p] = "fetch" /\ <<ppc'[p], attempt'[p]>> # <<ppc[p], attempt[p]>>)
         => /\ attempt[p] < 3
            /\ ppc'[p] \in {"fetch", "save", "done"}
            /\ ppc'[p] = "fetch"
                 => (/\ attempt'[p] = attempt[p] + 1
                     /\ stats'[p] = stats[p]
                     /\ new_articles'[p] = new_articles[p])
            /\ ppc'[p] = "save"
                 => (/\ attempt'[p] = 0
                     /\ stats'[p].errors = 0)
            /\ ppc'[p] = "done"
                 => (/\ attempt[p] = 2
                     /\ stats'[p].errors = 1
                     /\ stats'[p].saved = 0
                     /\ articles' = articles)]_vars

\* two attempts of a run have failed and the third is about to be made
C26_Witness == \E p \in PRuns : ppc[p] = "fetch" /\ attempt[p] = 2

\* C27: when the read of the 6 h window fails, the rolling aggregator
\* leaves as its result a zero record with an error marker, which a reader
\* can tell from the record of a window that was read and held no document.
C27_ReadFailureRecord ==
    [][\A p \in PRuns :
         (ppc[p] = "rollread" /\ ppc'[p] = "done")
         => (/\ current_sentiment' # NoDoc
             /\ "error" \in DOMAIN current_sentiment'
             /\ current_sentiment'.averageScore = 0
             /\ current_sentiment'.articlesAnalyzed = 0)]_vars

\* the documents inside the trailing 6 h window of a collection
InWindow(coll) ==
    {i \in DOMAIN coll : /\ coll[i].publishedAt >= clock - WINDOW_HOURS
                         /\ coll[i].publishedAt <= clock}

\* positive minus negative labels among the documents S of a collection
Net(coll, S) ==
    Cardinality({i \in S : coll[i].sentiment = Positive})
        - Cardinality({i \in S : coll[i].sentiment = Negative})

\* the record the slot should hold for the window of a collection
RecordOf(coll) ==
    [averageScore |-> IF InWindow(coll) = {} THEN 0
                      ELSE Round3(Net(coll, InWindow(coll)), Cardinality(InWindow(coll))),
     lastUpdated |-> clock,
     articlesAnalyzed |-> Cardinality(InWindow(coll)),
     timeWindow |-> "6 hours"]

C30_ArticlesAppendOnly ==
    [][/\ Len(articles') >= Len(articles)
       /\ SubSeq(articles', 1, Len(articles)) = articles
       /\ articles' # articles
            => \E p \in PRuns : ppc[p] = "save" /\ ppc'[p] = "rollread"]_vars

\* a run has added documents to a collection that held an older one, and
\* has gone on to its rolling update
C30_Witness ==
    \E p \in PRuns :
        /\ ppc[p] = "rollwrite"
        /\ stats[p].saved >= 1
        /\ Len(articles) > stats[p].saved
        /\ articles[1].publishedAt < clock

\* C31: overlapping runs meet only at the store.  A run loads as its set
\* the urls of all documents committed in the last 24 h, keeps the set as
\* loaded until its save, and saves no document whose url is in the set:
\* a url another run has committed before the load is not persisted again.
\* (A url committed after the load is not in the set: see the witness.)
C31_RaceAtStoreOnly ==
    [][\A p \in PRuns :
         /\ (ppc[p] = "load" /\ ppc'[p] = "fetch")
            => existing_urls'[p] =
                 {articles[i].url :
                    i \in {j \in DOMAIN articles : articles[j].publishedAt >= clock - 24}}
         /\ (ppc[p] \in {"fetch", "save"} /\ ppc'[p] # "done")
            => existing_urls'[p] = existing_urls[p]
         /\ (ppc[p] = "save" /\ ppc'[p] = "rollread")
            => \A i \in DOMAIN Added : Added[i].url \notin existing_urls[p]]_vars

\* both runs loaded before either saved, and each has committed one
\* document: the store holds two documents with the same url
C31_Witness ==
    /\ \A p \in PRuns : ppc[p] \in {"rollread", "rollwrite"} /\ stats[p].saved = 1
    /\ Len(articles) = 2
    /\ articles[1].url = articles[2].url
    /\ \A p \in PRuns : articles[1].url \notin existing_urls[p]

\* C33: a run reads the store for deduplication once: the step that loads
\* the set takes the urls of the documents published in the last 24 h, as
\* the collection is then, and the run goes from there to filtering with
\* no other read.  What passes the filter is decided by that set alone,
\* however many candidates there are and whatever the collection holds by
\* then: nothing that passes is in the set, with an empty set every
\* candidate passes, and the step changes neither set nor collection.
C33_OneQueryPerRun ==
    /\ [][\A p \in PRuns :
            (ppc[p] = "load" /\ ppc'[p] # "load")
            => (/\ ppc'[p] \in {"fetch", "done"}
                /\ ppc'[p] = "fetch"
                   => existing_urls'[p] =
                        {articles[i].url :
                           i \in {j \in DOMAIN articles :
                                    /\ articles[j].publishedAt >= clock - 24
                                    /\ articles[j].publishedAt <= clock}})]_vars
    /\ [][\A p \in PRuns :
            (ppc[p] = "fetch" /\ ppc'[p] = "save")
            => (/\ \A i \in DOMAIN new_articles'[p] :
                      new_articles'[p][i].url \notin existing_urls[p]
                /\ stats'[p].new_articles = Len(new_articles'[p])
                /\ stats'[p].new_articles <= stats'[p].fetched
                /\ existing_urls[p] = {}
                   => stats'[p].new_articles = stats'[p].fetched
                /\ existing_urls'[p] = existing_urls[p]
                /\ articles' = articles)]_vars

\* two candidates passed the filter of a run although the collection, by
\* the commit of another run after the load, already has one of their urls
C33_Witness ==
    \E p \in PRuns :
        /\ ppc[p] = "save" /\ Len(new_articles[p]) = 2
        /\ existing_urls[p] = {}
        /\ \E i \in DOMAIN new_articles[p], j \in DOMAIN articles :
              new_articles[p][i].url = articles[j].url

\* C35: every ticker of a record the validator accepted is upper-cased and
\* trimmed, and none is empty: an entry that is empty after trimming has
\* been dropped.
Normalised(t) == t = str_strip(str_upper(t)) /\ t # Str(<<>>)

C35_NoEmptyTicker ==
    /\ \A p \in PRuns : \A i \in DOMAIN new_articles[p] :
          \A k \in DOMAIN new_articles[p][i].tickers :
             Normalised(new_articles[p][i].tickers[k])
    /\ \A i \in DOMAIN articles :
          \A k \in DOMAIN articles[i].tickers : Normalised(articles[i].tickers[k])

\* C38: the save of a run is one commit: the step either appends a document
\* for every article that passed the filter, and the run counts them all as
\* saved, or appends nothing and ends the run with one error; documents are
\* appended by no other step.  The stats of a run satisfy, at every moment
\* and so when returned: saved <= new_articles <= fetched, errors is 0 or
\* 1, and a run that returns without error saved all of its new articles.
C38_AllOrNothing ==
    /\ [][\A p \in PRuns :
            (ppc[p] = "save" /\ ppc'[p] # "save")
            => \/ /\ Added = save_payloads(new_articles[p], clock)
                  /\ stats'[p].saved = Len(new_articles[p])
                  /\ stats'[p].errors = 0
                  /\ ppc'[p] = "rollread"
               \/ /\ Added = <<>>
                  /\ stats'[p].saved = 0
                  /\ stats'[p].errors = 1
                  /\ ppc'[p] = "done"]_vars
    /\ [][Added # <<>> => \E p \in PRuns : ppc[p] = "save" /\ ppc'[p] = "rollread"]_vars
    /\ [](\A p \in PRuns :
            /\ stats[p].saved <= stats[p].new_articles
            /\ stats[p].new_articles <= stats[p].fetched
            /\ stats[p].errors \in {0, 1}
            /\ stats[p].saved \in {0, stats[p].new_articles}
            /\ (ppc[p] = "done" /\ stats[p].errors = 0)
               => stats[p].saved = stats[p].new_articles)

\* one run lost its commit of two articles and returned saved 0 with one
\* error; the other committed its two at once
C38_Witness ==
    \E p \in PRuns, o \in PRuns :
        /\ ppc[p] = "done"
        /\ stats[p] = [fetched |-> 2, new_articles |-> 2, saved |-> 0, errors |-> 1]
        /\ ppc[o] = "done"
        /\ stats[o] = [fetched |-> 2, new_articles |-> 2, saved |-> 2, errors |-> 0]
        /\ Len(articles) = 2

----------------------------------------------------------------------------
(* Claims about the daily aggregation, over an unchanged collection *)

\* the documents of the scanned day, in the order of the query
DayDocs ==
    order_by({x \in {Snapshot(articles, i) : i \in DOMAIN articles} :
                 x.data.publishedAt >= day /\ x.data.publishedAt < day + DAY_HOURS})

\* some document of the scanned day carries the tag s
Observed(s) ==
    \E i \in DOMAIN DayDocs :
        \E k \in DOMAIN get_sectors(DayDocs[i].data) :
            get_sectors(DayDocs[i].data)[k] = s

\* C9: every record the daily aggregation produces, the one it returns and
\* the one it stores, has a sectorBreakdown whose keys are exactly the 10
\* fixed sectors, whichever tags occurred in the scanned documents, and a
\* sector no scanned document carries has the value 0.
C9_BreakdownKeys ==
    /\ \A d \in Dates :
          sentiment_history[d] # NoDoc
          => DOMAIN sentiment_history[d].sectorBreakdown = SectorSet
    /\ result # None
          => /\ DOMAIN result.sectorBreakdown = SectorSet
             /\ \A s \in SectorSet :
                   ~Observed(s) => result.sectorBreakdown[s] = 0

C9_Witness ==
    /\ dpc = "return"
    /\ sentiment_history[strftime(day)] # NoDoc
    /\ Observed("Crypto")
    /\ result.sectorBreakdown["Banking"] # 0
    /\ ~Observed("Power") /\ result.sectorBreakdown["Power"] = 0

\* the label stored in the i-th document of the scanned day
Label(i) == DayDocs[i].data.sentiment

\* the label is the given lower-case word up to the case of its letters
SameWord(lab, word) ==
    /\ lab.kind = "str"
    /\ Len(lab.chars) = Len(word)
    /\ \A k \in DOMAIN word : LowerChar(lab.chars[k]) = word[k]

\* C10: the score folded for a document is +1 for the label Positive, -1
\* for Negative and 0 for Neutral and for every other label, a missing or
\* an empty one included.
C10_ExactLabels ==
    \A i \in DOMAIN overall_scores :
        overall_scores[i] =
            IF Label(i) = Positive THEN 1
            ELSE IF Label(i) = Negative THEN -1
            ELSE 0

\* C10 as amended: the label is compared without regard to case: +1 for a
\* string that lower-cases to "positive", -1 for one that lower-cases to
\* "negative", 0 for every other string, the empty one included, and 0 for
\* a document without the field.
C10_CaseInsensitive ==
    \A i \in DOMAIN overall_scores :
        (Label(i) = Missing \/ Label(i).kind = "str")
        => overall_scores[i] =
              IF SameWord(Label(i), <<"p","o","s","i","t","i","v","e">>) THEN 1
              ELSE IF SameWord(Label(i), <<"n","e","g","a","t","i","v","e">>) THEN -1
              ELSE 0

C10_Witness ==
    \E i, j, k \in DOMAIN overall_scores :
        /\ Label(i) = Str(<<"N","E","G","A","T","I","V","E">>)
        /\ overall_scores[i] = -1
        /\ Label(j) = Missing /\ overall_scores[j] = 0
        /\ Label(k) = Str(<<>>) /\ overall_scores[k] = 0

\* the score of a stored document: the label compared without regard to
\* case, an absent or null label counting as Neutral
ScoreOf(d) ==
    IF d.sentiment = Missing \/ d.sentiment = None THEN 0
    ELSE IF SameWord(d.sentiment, <<"p","o","s","i","t","i","v","e">>) THEN 1
    ELSE IF SameWord(d.sentiment, <<"n","e","g","a","t","i","v","e">>) THEN -1
    ELSE 0

\* the sum of the scores of the documents dd[i], i in S
RECURSIVE SumOver(_, _)
SumOver(dd, S) ==
    IF S = {} THEN 0
    ELSE LET i == CHOOSE x \in S : TRUE
         IN ScoreOf(dd[i].data) + SumOver(dd, S \ {i})

\* their mean score, in thousandths, 0 for no document
MeanOver(dd, S) == IF S = {} THEN 0 ELSE Round3(SumOver(dd, S), Cardinality(S))

\* the documents of dd that carry the tag s
CarryingIn(dd, s) ==
    {i \in DOMAIN dd :
        \E k \in DOMAIN get_sectors(dd[i].data) : get_sectors(dd[i].data)[k] = s}

Carrying(s) == CarryingIn(DayDocs, s)

\* C12: the record the daily aggregation builds has articlesAnalyzed equal
\* to the number of documents in the day range, overallSentimentScore equal
\* to the mean of their scores (0 for none), and for each of the 10 sectors
\* the mean of the scores of the documents carrying that tag (0 for none).
C12_Aggregate ==
    result # None
    => LET dd == DayDocs IN
       /\ result.articlesAnalyzed = Len(dd)
       /\ result.overallSentimentScore = MeanOver(dd, DOMAIN dd)
       /\ \A s \in SectorSet :
             result.sectorBreakdown[s] = MeanOver(dd, CarryingIn(dd, s))

\* the scenario of three documents: Positive [IT], Negative [Banking],
\* Neutral []
C12_Witness ==
    /\ result # None
    /\ sentiment_history[strftime(day)] # NoDoc
    /\ Len(DayDocs) = 3
    /\ \E i, j, k \in DOMAIN DayDocs :
          /\ Label(i) = Positive /\ Carrying("IT") = {i}
          /\ Label(j) = Negative /\ Carrying("Banking") = {j}
          /\ Label(k) = Neutral /\ get_sectors(DayDocs[k].data) = <<>>
    /\ result.articlesAnalyzed = 3
    /\ result.overallSentimentScore = 0
    /\ result.sectorBreakdown["IT"] = 1000
    /\ result.sectorBreakdown["Banking"] = -1000
    /\ \A s \in SectorSet \ {"IT", "Banking"} : result.sectorBreakdown[s] = 0

\* C13: a scan that read all its pages over a range of N documents with
\* page size P has issued exactly ceil(N/P) page queries, N = 0 and N a
\* multiple of P included.
C13_CeilQueries ==
    dpc = "write"
    => queries = (Len(DayDocs) + batch_size - 1) \div batch_size

\* C13 as amended: it has issued exactly floor(N/P) + 1 page queries, the
\* last of them returning fewer than P documents, possibly none.
C13_FloorPlusOne ==
    dpc = "write"
    => /\ queries = (Len(DayDocs) \div batch_size) + 1
       /\ Len(docs) < batch_size

\* a range holding exactly one full page: the second query comes back empty
C13_Witness ==
    /\ dpc = "write"
    /\ Len(DayDocs) = batch_size
    /\ queries = 2
    /\ docs = <<>>

\* the raw store records the scanner refers to: the page in `docs`, the
\* list being filled and the cursor snapshot
Held ==
    {docs[i] : i \in DOMAIN docs} \cup {incoming[i] : i \in DOMAIN incoming}
        \cup (IF last = None THEN {} ELSE {last})

SansTimestamp(rec) == [rec EXCEPT !.lastUpdated = 0]

\* C15: a second run for a date that already has a stored record, over the
\* unchanged collection, builds a record equal to the stored one in every
\* field but lastUpdated, and its set() replaces that record: the records of
\* the other dates stay as they are and the date keeps a single record.
C15_Idempotent ==
    [][(/\ dpc = "write" /\ dpc' = "return"
        /\ sentiment_history[strftime(day)] # NoDoc)
       => (/\ SansTimestamp(result') = SansTimestamp(sentiment_history[strftime(day)])
           /\ SansTimestamp(sentiment_history'[strftime(day)]) =
                 SansTimestamp(sentiment_history[strftime(day)])
           /\ sentiment_history'[strftime(day)].lastUpdated = clock
           /\ \A d \in Dates \ {strftime(day)} :
                 sentiment_history'[d] = sentiment_history[d])]_vars

\* the date has been written twice, hours apart, from a day with documents
C15_Witness ==
    /\ dpc = "return"
    /\ writes[strftime(day)] = 2
    /\ result.articlesAnalyzed > 0
    /\ sentiment_history[strftime(day)].lastUpdated = clock
    /\ clock > day

\* a record whose count, overall score and 10 sector averages are all 0
ZeroValued(rec) ==
    /\ {"articlesAnalyzed", "overallSentimentScore", "sectorBreakdown"} \subseteq DOMAIN rec
    /\ rec.articlesAnalyzed = 0
    /\ rec.overallSentimentScore = 0
    /\ DOMAIN rec.sectorBreakdown = SectorSet
    /\ \A s \in SectorSet : rec.sectorBreakdown[s] = 0

\* C16: for a day with no document the aggregation returns a zero-valued
\* record that carries a note marking it as computed from zero records, and
\* no error marker, so that it is told apart from the record of a failure.
C16_ZeroDayNote ==
    (result # None /\ Len(DayDocs) = 0)
    => /\ ZeroValued(result)
       /\ "note" \in DOMAIN result
       /\ "error" \notin DOMAIN result

\* C17: a store error on any page of the scan aborts the aggregation: what
\* the job returns is a zero-valued record with an error marker, and nothing
\* is written to 'sentiment_history'.
C17_ErrorRecord ==
    [][(dpc = "scan" /\ dpc' = "done")
       => (/\ ZeroValued(dresp'.body)
           /\ "error" \in DOMAIN dresp'.body
           /\ sentiment_history' = sentiment_history)]_vars

\* C21: the endpoint of the daily job answers 200 when the run executed to
\* its end (the record was written, also for a day with no record to
\* count) and 500 when the run ended in a failure.
C21_StatusCodes ==
    [][(dpc # "done" /\ dpc' = "done")
       => dresp'.statusCode = IF dpc = "return" THEN 200 ELSE 500]_vars

\* the smaller of two numbers
Min(a, b) == IF a < b THEN a ELSE b

\* C23: over an unchanged collection each page the scan fetches is the
\* next batch_size documents of the day, in ascending order, starting
\* right after the documents already folded: pages are disjoint, none is
\* skipped, and when the scan is over every document of [day, day + 24h)
\* has been folded once and `total` is their number.
C23_ExactlyOnce ==
    [][/\ (dpc = "scan" /\ dpc' = "fold")
          => incoming' = SubSeq(DayDocs, total + 1,
                                Min(total + batch_size, Len(DayDocs)))
       /\ (dpc = "fold" /\ dpc' = "write")
          => (/\ total' = Len(DayDocs)
              /\ Len(overall_scores') = Len(DayDocs))]_vars

\* a finished scan of two pages where the last document of the first page
\* and the first of the second have the same publishedAt
C23_Witness ==
    /\ dpc = "write"
    /\ queries = 2
    /\ total = batch_size + 1
    /\ DayDocs[batch_size].data.publishedAt = DayDocs[batch_size + 1].data.publishedAt
    /\ docs = <<DayDocs[batch_size + 1]>>

\* C24: the scan ends: a page that is empty or shorter than batch_size is
\* the last one fetched (the next step of the run is the finalization, no
\* further query is issued), a full page is followed by another fetch, and
\* a scan that has started always reaches the finalization or the error
\* exit.
C24_ScanTerminates ==
    /\ [][/\ (dpc = "fold" /\ Len(incoming) < batch_size) => dpc' = "write"
          /\ (dpc = "fold" /\ Len(incoming) = batch_size) => dpc' = "scan"
          /\ dpc \in {"write", "return", "done"} => queries' = queries]_vars
    /\ (dpc = "scan") ~> (dpc \in {"write", "done"})

\* a scan left on a short page after a full one
C24_Witness ==
    /\ dpc = "write"
    /\ queries = 2
    /\ total = batch_size + 1
    /\ Len(docs) = 1

\* the documents published on a calendar day
OnDate(d) == {i \in DOMAIN articles : articles[i].publishedAt \div DAY_HOURS = d.date}

\* C25: the range of a day is [dayStart, dayEnd): the record stored for a
\* date counts exactly the documents published on that calendar day, so a
\* document published at midnight is counted for the day that begins and
\* not for the day that ends, and no document is counted for two dates.
C25_HalfOpenDay ==
    \A d \in Dates :
        sentiment_history[d] # NoDoc
        => sentiment_history[d].articlesAnalyzed = Cardinality(OnDate(d))

\* two consecutive days have their records, one document was published at
\* the midnight between them, and the two counts add up to the collection
C25_Witness ==
    /\ sentiment_history[[date |-> 0]] # NoDoc
    /\ sentiment_history[[date |-> 1]] # NoDoc
    /\ \E i \in DOMAIN articles : articles[i].publishedAt = DAY_HOURS
    /\ \E i \in DOMAIN articles : articles[i].publishedAt < DAY_HOURS
    /\ sentiment_history[[date |-> 0]].articlesAnalyzed
          + sentiment_history[[date |-> 1]].articlesAnalyzed = Len(articles)

\* C28: the daily job writes to sentiment_history at its finalization
\* only: the store changes on no step but the one that ends "write" with
\* success, which makes one write under the key of the scanned day and
\* touches no other date; a run cannot come back to that step, so a run
\* that completes writes once, and a run that fails while scanning leaves
\* the record of its date as it was.
C28_WriteAtFinalization ==
    [][/\ (sentiment_history' # sentiment_history \/ writes' # writes)
          => (dpc = "write" /\ dpc' = "return")
       /\ (dpc = "write" /\ dpc' = "return")
          => \A d \in DOMAIN writes :
                IF d = [date |-> day \div DAY_HOURS]
                  THEN /\ writes'[d] = writes[d] + 1
                       /\ sentiment_history'[d] # NoDoc
                       /\ sentiment_history'[d].date = d
                  ELSE /\ writes'[d] = writes[d]
                       /\ sentiment_history'[d] = sentiment_history[d]
       /\ dpc \in {"return", "done"} => dpc' \in {"return", "done", "idle"}]_vars

\* a second run failed while scanning, after a page was folded, and the
\* record the first run wrote for the date is there, written once
C28_Witness ==
    /\ dpc = "done"
    /\ daily_started = 2
    /\ result = None
    /\ total > 0
    /\ writes[strftime(day)] = 1
    /\ sentiment_history[strftime(day)] # NoDoc

----------------------------------------------------------------------------
(* Claims about the score mapping of the aggregators *)

\* C11: for every stored label value, absent, null and unrecognised ones
\* included, the rolling aggregators and the daily aggregator end the same
\* way: the same score, and none raises where another returns a score.
C11_SameMapping ==
    /\ (rolling # Unset /\ daily # Unset) => rolling = daily
    /\ (rolling_hardened # Unset /\ daily # Unset) => rolling_hardened = daily

====
